---- MODULE Spec2Model ----
(***************************************************************************)
(* The capture-and-submit workflow of the attendance dashboard.            *)
(*                                                                         *)
(* One behaviour is the life of one mounted screen component:              *)
(*   "mark"  - MarkAttendance            (src/unnamed/part_000)            *)
(*   "train" - StudentTraining           (src/unnamed/part_006, 525-1150)  *)
(*   "demo"  - MarkAttendance, demo mode (src/src/pages/ClassesManagement) *)
(* A step is one browser task: a user event handled by the component, or   *)
(* the continuation of one asynchronous operation (getUserMedia, toBlob,   *)
(* FileReader, fetch, setTimeout).  React state set in a task is rendered  *)
(* before the next task, so the controls a user can reach in a state are   *)
(* those the render function shows for that state.                         *)
(***************************************************************************)
EXTENDS Integers, Sequences, FiniteSets, TLC

\* Bounds of the model.
MaxStarts == 2      \* getUserMedia calls issued by one screen
MaxPhotos == 2      \* frames captured plus files chosen
MaxSubmits == 2     \* requests sent to the backend
MaxSubjects == 2    \* subjects the teacher has
MaxOps == 4         \* getUserMedia calls, photos and requests, taken together
MaxDetections == 2  \* detections in one response
MaxUserId == 2      \* ids of the users that log in
MaxReloads == 2     \* page reloads

\* ClassesManagement.tsx 325-331: the demo list holds five detections.
DemoCount == 5
\* ClassesManagement.tsx 273-276: the demo subjects are two.
DemoSubjectCount == 2

Screens == {"mark", "train", "demo"}
Fields == {"name", "roll_no", "year", "branch", "section"}
EmptyForm == [f \in Fields |-> ""]
FilledForm == [f \in Fields |-> "x"]
\* The forms the user is taken to type: every field filled, or every field
\* but one, that one holding white space only.
FormInputs ==
    {FilledForm} \cup
    {[FilledForm EXCEPT ![f] = " "] : f \in Fields}

NoRequest ==
    [status |-> "unused", endpoint |-> "", file |-> 0, form |-> EmptyForm,
     subject |-> 0]

----------------------------------------------------------------------------
\* The responses of the backend, and what the gateway makes of them.

\* Confidence values, in hundredths, around the two thresholds of part_000 128.
Confidences == {69, 70, 84, 85}
\* The detection lists a response carries, in the order the server gives.
DetectionLists ==
    UNION {[1..n -> [student_id : {0}, confidence : Confidences]]
             : n \in 0..MaxDetections}
\* A list with the student ids 1, 2, ... filled in.
Numbered(l) == [k \in 1..Len(l) |-> [l[k] EXCEPT !.student_id = k]]

StatusCodes == {200, 500}
\* The texts a "detail" string carries; the empty one is a string too.
Details == {"", "Subject not found"}
\* body.detail: absent, a string, a validation array whose first entry has a
\* msg (a text, or the empty string), an array without one.
DetailValues == {"absent", "[msg]", "[empty msg]", "[]"} \cup Details
ValidationMessage == "field required"
\* body.message: absent or a string.
MessageValues == {"absent", "Server error"}

\* No response yet.
NoResponse ==
    [kind |-> "none", status |-> 0, json |-> FALSE, detail |-> "absent",
     message |-> "absent", students_present |-> "absent", list |-> <<>>]
\* fetch rejects: the request never got an answer.
NetworkError == [NoResponse EXCEPT !.kind = "network_error"]
\* An answer whose body is not JSON.
NotJson(code) == [NoResponse EXCEPT !.kind = "http", !.status = code]
\* An answer whose body is a JSON object: students_present is absent (or
\* null), an array, or something that is no array.
JsonBodies(code) ==
    {[kind |-> "http", status |-> code, json |-> TRUE, detail |-> d,
      message |-> m, students_present |-> p, list |-> <<>>]
       : d \in DetailValues, m \in MessageValues, p \in {"absent", "not_a_list"}}
    \cup
    {[kind |-> "http", status |-> code, json |-> TRUE, detail |-> d,
      message |-> m, students_present |-> "list", list |-> Numbered(l)]
       : d \in DetailValues, m \in MessageValues, l \in DetectionLists}
Responses ==
    {NetworkError} \cup
    UNION {{NotJson(code)} \cup JsonBodies(code) : code \in StatusCodes}

\* res.ok
Ok(r) == r.status \in 200..299

NetworkHint == "Network error calling the URL. Check VITE_API_URL ..."
JsonSyntaxError == "Unexpected token in JSON"
RequestFailed(code) == "Request failed (" \o ToString(code) \o ")"

\* A value of the body in a boolean context: an absent one and the empty
\* string are falsy, arrays and other strings are truthy.
Present(v) == v # "absent" /\ v # ""

\* The message built that puts body.message before body.detail.
ErrorMessage_MessageFirst(r) ==
    IF ~r.json THEN RequestFailed(r.status)
    ELSE IF Present(r.message) THEN r.message
    ELSE IF Present(r.detail)
    THEN IF r.detail \in Details THEN r.detail
         ELSE IF r.detail = "[msg]" THEN ValidationMessage
         ELSE IF r.detail = "[empty msg]" THEN ""
         ELSE RequestFailed(r.status)
    ELSE RequestFailed(r.status)

\* The message requestJson and requestFormData build for an answer that is
\* not ok (the two functions build it with the same statements).
ErrorMessage(r) ==
    IF ~r.json THEN RequestFailed(r.status)
    ELSE IF Present(r.detail)
    THEN IF r.detail \in Details THEN r.detail
         ELSE IF r.detail = "[msg]" THEN ValidationMessage
         ELSE IF r.detail = "[empty msg]" THEN ""
         ELSE RequestFailed(r.status)
    ELSE IF Present(r.message) THEN r.message
    ELSE RequestFailed(r.status)

\* requestFormData: the promise resolves with the parsed body or rejects with
\* an Error carrying a message.
RequestFormData(r) ==
    IF r.kind = "network_error"
      THEN [ok |-> FALSE, message |-> NetworkHint]
    ELSE IF ~Ok(r)
      THEN [ok |-> FALSE, message |-> ErrorMessage(r)]
    ELSE IF ~r.json
      THEN [ok |-> FALSE, message |-> JsonSyntaxError]
    ELSE [ok |-> TRUE, message |-> ""]

\* requestJson: as requestFormData, for the requests without a file.
RequestJson(r) ==
    IF r.kind = "network_error"
      THEN [ok |-> FALSE, message |-> NetworkHint]
    ELSE IF ~Ok(r)
      THEN [ok |-> FALSE, message |-> ErrorMessage(r)]
    ELSE IF ~r.json
      THEN [ok |-> FALSE, message |-> JsonSyntaxError]
    ELSE [ok |-> TRUE, message |-> ""]

\* The answers that make a request reject, told apart by what the message
\* is built from.
ErrorResponses ==
    {NetworkError} \cup {NotJson(code) : code \in StatusCodes} \cup
    {[NotJson(code) EXCEPT !.json = TRUE, !.detail = d, !.message = m]
       : code \in {c \in StatusCodes : c \notin 200..299},
         d \in DetailValues, m \in MessageValues}

----------------------------------------------------------------------------
\* The session: the principal, and localStorage with its two fixed keys.

Roles == {"ADMIN", "TEACHER", "STUDENT"}
Tokens == {"t1", "t2"}
\* The profiles login is called with; name is optional.
Users ==
    [id : 1..MaxUserId, email : {"a@b.c"}, role : Roles,
     name : {"absent", "Ann"}]
\* user === null
NoUser == [id |-> 0, email |-> "", role |-> "", name |-> "absent"]
Teacher == [id |-> 1, email |-> "a@b.c", role |-> "TEACHER", name |-> "Ann"]

\* JSON.stringify(user): the keys with their values, a key whose value is
\* undefined left out.
JsonStringify(u) ==
    <<"id", u.id, "email", u.email, "role", u.role>> \o
    (IF u.name = "absent" THEN <<>> ELSE <<"name", u.name>>)
\* JSON.parse of such a text.
JsonParse(text) ==
    [id |-> text[2], email |-> text[4], role |-> text[6],
     name |-> IF Len(text) >= 8 THEN text[8] ELSE "absent"]

\* localStorage with neither key set: getItem gives null for both.
EmptyStorage == [access_token |-> "absent", user |-> <<>>]
\* auth.setAuth(token, user)
SetAuth(token, u) == [access_token |-> token, user |-> JsonStringify(u)]
\* auth.getUser() on storage st
GetUser(st) == IF st.user # <<>> THEN JsonParse(st.user) ELSE NoUser
\* auth.isAuthenticated() on storage st
IsAuthenticated(st) == st.access_token # "absent" /\ st.access_token # ""

\* The routes followed here: the login page and three of the routes that
\* App wraps in DashboardLayout.
Paths == {"/login", "/dashboard", "/attendance/mark", "/training"}
Protected(p) == p # "/login"
\* navItems: the roles whose sidebar shows a link to p.
NavRoles(p) ==
    CASE p = "/dashboard" -> {"TEACHER", "STUDENT", "ADMIN"}
      [] p = "/attendance/mark" -> {"TEACHER"}
      [] p = "/training" -> {"TEACHER", "ADMIN"}
      [] OTHER -> {}

\* A layout that redirects nobody.
Redirected_Never(p, loading, u) == p

\* DashboardLayout on route p: once loading is over, a visit without a
\* principal is sent to the login route.
Redirected(p, loading, u) ==
    IF Protected(p) /\ ~loading /\ u = NoUser THEN "/login" ELSE p

\* What the router shows on route p: the login page, the spinner, or the
\* children of DashboardLayout (named by their route).
Shown(p, loading, u) ==
    IF ~Protected(p) THEN "login page"
    ELSE IF loading THEN "spinner"
    ELSE IF u = NoUser THEN "nothing"
    ELSE p

VARIABLES
    screen,               \* which component this behaviour mounts
    mounted,              \* FALSE once the component is torn down
    isCameraActive,       \* useState
    isProcessing,         \* useState
    capturedImage,        \* useState: 0 is null, else the photo shown
    capturedFile,         \* useState (train): 0 is null, else the photo held
    registrationSuccess,  \* useState (train)
    form,                 \* useState (train)
    subjects,             \* useState (mark, demo): number of subjects held
    selectedSubject,      \* useState (mark, demo): 0 is null
    subjectsFetch,        \* "pending" until the mount effect's fetch settles
    detectedStudents,     \* useState (mark, demo)
    showSuccess,          \* useState (mark, demo)
    error,                \* useState (mark): "null" or a message
    nStarts,              \* getUserMedia calls made so far
    pendingStarts,        \* getUserMedia calls whose promise is pending
    nGranted,             \* streams granted so far: the k-th granted is stream k
    live,                 \* streams whose video track is live (camera acquired)
    streamRef,            \* streamRef.current: 0 is null
    srcObject,            \* videoRef.current.srcObject: 0 is null
    readyState4,          \* videoRef.current.readyState === 4
    pickerOpen,           \* the file chooser opened by "Upload Photo" is showing
    readers,              \* files a FileReader is still reading
    blobs,                \* frames canvas.toBlob is still encoding
    canvas,               \* the frame last drawn on the offscreen canvas
    nPhotos,              \* photos produced so far
    net,                  \* the fetch calls made: unused, inflight (with what
                          \* was sent) or settled (a registration the server
                          \* accepted keeps what it sent)
    resetTimers,          \* pending setTimeout(reset, 2500) of train
    successTimers,        \* pending setTimeout(() => setShowSuccess(false))
    capturePc,            \* where captureAndProcess stands: "idle", "wait"
                          \* (demo: the simulated processing), "request"
                          \* (mark: api.markAttendance pending), "encode"
                          \* (mark: canvas.toBlob pending), "reveal"
    revealIdx,            \* captureAndProcess: loop variable i
    response,             \* the response the mark request of this capture
                          \* has received, NoResponse until then
    students,             \* captureAndProcess: the local list "students"
    captureSubject,       \* captureAndProcess: the selectedSubject its closure holds
    storage,              \* localStorage: the keys access_token and user
    user,                 \* AuthProvider useState: the principal, or NoUser
    isLoading,            \* AuthProvider useState
    principal,            \* the profile of the last login, NoUser after a
                          \* logout (history)
    nReloads,             \* page reloads so far
    path,                 \* the route the browser is on
    toast,                \* the notification the last step raised, or "none"
    lastSubmit            \* what the last step did if it was a click on the
                          \* submit control, else "none"

respVars == <<response, students, captureSubject>>
sessionVars == <<storage, user, isLoading, principal, nReloads, path>>
startVars == <<nStarts, pendingStarts, nGranted>>
camVars == <<nStarts, pendingStarts, nGranted, live, streamRef, srcObject,
            readyState4>>
photoVars == <<pickerOpen, readers, blobs, canvas, nPhotos>>
netVars == <<net, resetTimers>>
trainVars == <<capturedFile, registrationSuccess, form>>
markVars == <<subjects, selectedSubject, subjectsFetch, error>>
demoVars == <<detectedStudents, showSuccess, successTimers, capturePc, revealIdx>>

vars == <<screen, mounted, isCameraActive, isProcessing, capturedImage,
          capturedFile, registrationSuccess, form, subjects, selectedSubject,
          subjectsFetch, detectedStudents, showSuccess, error, nStarts,
          pendingStarts, nGranted, live,
          streamRef, srcObject, readyState4, pickerOpen, readers, blobs,
          canvas, nPhotos, net, resetTimers, successTimers,
          capturePc, revealIdx, response, students, captureSubject, toast,
          lastSubmit, sessionVars>>

\* A teacher is logged in and the page has loaded.
LoggedIn ==
    /\ storage = SetAuth("t1", Teacher)
    /\ user = Teacher
    /\ isLoading = FALSE
    /\ principal = Teacher
    /\ nReloads = 0

\* The state of a screen after its first render.
PageIdle ==
    /\ mounted = TRUE
    /\ isCameraActive = FALSE
    /\ isProcessing = FALSE
    /\ capturedImage = 0
    /\ capturedFile = 0
    /\ registrationSuccess = FALSE
    /\ form = EmptyForm
    /\ subjects = 0
    /\ selectedSubject = 0
    /\ detectedStudents = <<>>
    /\ showSuccess = FALSE
    /\ error = "null"
    /\ nStarts = 0
    /\ pendingStarts = 0
    /\ nGranted = 0
    /\ live = {}
    /\ streamRef = 0
    /\ srcObject = 0
    /\ readyState4 = FALSE
    /\ pickerOpen = FALSE
    /\ readers = {}
    /\ blobs = {}
    /\ canvas = 0
    /\ nPhotos = 0
    /\ net = [i \in 1..MaxSubmits |-> NoRequest]
    /\ resetTimers = 0
    /\ successTimers = 0
    /\ capturePc = "idle"
    /\ revealIdx = 0
    /\ response = NoResponse
    /\ students = <<>>
    /\ captureSubject = 0
    /\ toast = "none"
    /\ lastSubmit = "none"

Init ==
    /\ screen \in Screens
    /\ path = IF screen = "train" THEN "/training" ELSE "/attendance/mark"
    /\ subjectsFetch = IF screen = "train" THEN "done" ELSE "pending"
    /\ PageIdle
    /\ LoggedIn

----------------------------------------------------------------------------
\* The <video> element, the refs and the network.

\* Whether the render function mounts <video ref={videoRef}>, that is whether
\* videoRef.current is non-null.
VideoMounted ==
    /\ mounted
    /\ CASE screen = "mark" -> isCameraActive
         [] screen = "train" -> capturedImage = 0
         [] screen = "demo" -> isCameraActive

\* The user is free to click a control of the page.
UserCanAct == mounted /\ ~pickerOpen

InFlight == {i \in 1..MaxSubmits : net[i].status = "inflight"}
UnusedNet == {i \in 1..MaxSubmits : net[i].status = "unused"}
NextNet == CHOOSE i \in UnusedNet : \A j \in UnusedNet : i <= j
NumSent == MaxSubmits - Cardinality(UnusedNet)
Settled == [NoRequest EXCEPT !.status = "settled"]
\* The operations counted against MaxOps.
OpsUsed == nStarts + nPhotos + NumSent

\* navigator.mediaDevices.getUserMedia(...) is called: the promise is pending.
GetUserMedia ==
    /\ nStarts < MaxStarts
    /\ OpsUsed < MaxOps
    /\ nStarts' = nStarts + 1
    /\ pendingStarts' = pendingStarts + 1
    /\ UNCHANGED nGranted

\* A pending getUserMedia promise resolves with a new stream, whose track is
\* live from then on.
StreamGranted ==
    /\ pendingStarts > 0
    /\ pendingStarts' = pendingStarts - 1
    /\ nGranted' = nGranted + 1
    /\ live' = live \cup {nGranted + 1}
    /\ UNCHANGED nStarts

\* A pending getUserMedia promise rejects.
StreamDenied ==
    /\ pendingStarts > 0
    /\ pendingStarts' = pendingStarts - 1
    /\ UNCHANGED <<nStarts, nGranted, live>>


\* The component's state is gone once it is unmounted: setState is a no-op.
StateDropped ==
    /\ isCameraActive' = FALSE
    /\ isProcessing' = FALSE
    /\ capturedImage' = 0
    /\ capturedFile' = 0
    /\ registrationSuccess' = FALSE
    /\ form' = EmptyForm
    /\ subjects' = 0
    /\ selectedSubject' = 0
    /\ detectedStudents' = <<>>
    /\ showSuccess' = FALSE
    /\ error' = "null"

\* The camera delivers a frame to the attached video element.
VideoCanPlay ==
    /\ VideoMounted
    /\ srcObject # 0
    /\ srcObject \in live
    /\ ~readyState4
    /\ readyState4' = TRUE
    /\ toast' = "none"
    /\ lastSubmit' = "none"
    /\ UNCHANGED <<sessionVars, respVars, screen, mounted, isCameraActive, isProcessing, capturedImage,
                   startVars, live, streamRef, srcObject>>
    /\ UNCHANGED <<photoVars, netVars, trainVars, markVars, demoVars>>

\* A stopCamera that stops the tracks but leaves the camera flag set.
StopCamera_StaysActive ==
    /\ live' = IF streamRef # 0 THEN live \ {streamRef} ELSE live
    /\ streamRef' = 0
    /\ srcObject' = 0
    /\ readyState4' = FALSE
    /\ UNCHANGED isCameraActive

\* stopCamera of part_000 (86-93) and of part_006 (583-592): the same body.
StopCamera ==
    /\ live' = IF streamRef # 0 THEN live \ {streamRef} ELSE live
    /\ streamRef' = 0
    /\ srcObject' = 0
    /\ readyState4' = FALSE
    /\ isCameraActive' = FALSE

\* The unmount cleanup of part_000 (58-62) and of part_006 (553-560): the
\* tracks of streamRef.current are stopped; the ref itself is left as it is.
CleanupOnUnmount ==
    /\ live' = IF streamRef # 0 THEN live \ {streamRef} ELSE live
    /\ UNCHANGED streamRef

----------------------------------------------------------------------------
\* StudentTraining (the enrollment screen).

\* String.prototype.trim on the values a field takes here.
Trim(v) == IF v = " " THEN "" ELSE v
\* A string in a boolean context.
Truthy(v) == v # ""

\* isFormValid that does not trim the name.
IsFormValid_NoTrim ==
    /\ Truthy(form["name"])
    /\ Truthy(Trim(form["roll_no"]))
    /\ Truthy(Trim(form["year"]))
    /\ Truthy(Trim(form["branch"]))
    /\ Truthy(Trim(form["section"]))
    /\ capturedFile # 0

IsFormValid ==
    /\ Truthy(Trim(form["name"]))
    /\ Truthy(Trim(form["roll_no"]))
    /\ Truthy(Trim(form["year"]))
    /\ Truthy(Trim(form["branch"]))
    /\ Truthy(Trim(form["section"]))
    /\ capturedFile # 0

\* The submit button that does not look at isProcessing.
SubmitDisabled_NoBusy == ~IsFormValid

\* disabled={!isFormValid() || isProcessing}
SubmitDisabled == ~IsFormValid \/ isProcessing

\* The controls the render function shows (816-853).
TrainStartControl == mounted /\ capturedImage = 0 /\ ~isCameraActive
TrainStopControl == mounted /\ capturedImage = 0 /\ isCameraActive
TrainCaptureControl == mounted /\ capturedImage = 0 /\ isCameraActive
TrainRetakeControl == mounted /\ capturedImage # 0

\* "Start Camera" of the enrollment screen is clicked.
TrainStartCamera ==
    /\ screen = "train"
    /\ UserCanAct
    /\ TrainStartControl
    /\ GetUserMedia
    /\ toast' = "none"
    /\ lastSubmit' = "none"
    /\ UNCHANGED <<sessionVars, respVars, screen, mounted, isCameraActive, isProcessing, capturedImage,
                   live, streamRef, srcObject, readyState4>>
    /\ UNCHANGED <<photoVars, netVars, trainVars, markVars, demoVars>>

\* getUserMedia resolves with a stream: the rest of startCamera runs.
TrainStartGranted ==
    /\ screen = "train"
    /\ StreamGranted
    /\ IF VideoMounted
         THEN /\ srcObject' = nGranted'
              /\ streamRef' = nGranted'
              /\ readyState4' = FALSE
              /\ isCameraActive' = TRUE
              /\ capturedImage' = 0
              /\ capturedFile' = 0
         ELSE UNCHANGED <<srcObject, streamRef, readyState4, isCameraActive,
                          capturedImage, capturedFile>>
    /\ toast' = "none"
    /\ lastSubmit' = "none"
    /\ UNCHANGED <<sessionVars, respVars, screen, mounted, isProcessing, registrationSuccess, form>>
    /\ UNCHANGED <<photoVars, netVars, markVars, demoVars>>

\* getUserMedia rejects: the catch of startCamera.
TrainStartDenied ==
    /\ screen = "train"
    /\ StreamDenied
    /\ toast' = "camera_denied"
    /\ lastSubmit' = "none"
    /\ UNCHANGED <<sessionVars, respVars, screen, mounted, isCameraActive, isProcessing, capturedImage,
                   streamRef, srcObject, readyState4>>
    /\ UNCHANGED <<photoVars, netVars, trainVars, markVars, demoVars>>

\* "Stop" is clicked.
TrainStopCamera ==
    /\ screen = "train"
    /\ UserCanAct
    /\ TrainStopControl
    /\ StopCamera
    /\ toast' = "none"
    /\ lastSubmit' = "none"
    /\ UNCHANGED <<sessionVars, respVars, screen, mounted, isProcessing, capturedImage, startVars>>
    /\ UNCHANGED <<photoVars, netVars, trainVars, markVars, demoVars>>

\* A ready test that lets every frame through.
VideoNotReady_Never == FALSE

\* videoRef.current.readyState !== 4: the video has not buffered a frame.
VideoNotReady == ~readyState4

\* "Capture Photo" is clicked: capturePhoto up to the call of canvas.toBlob.
TrainCapturePhoto ==
    /\ screen = "train"
    /\ UserCanAct
    /\ TrainCaptureControl
    /\ IF ~VideoMounted
         THEN /\ toast' = "none"
              /\ UNCHANGED <<canvas, nPhotos, blobs>>
         ELSE IF VideoNotReady
         THEN /\ toast' = "camera_not_ready"
              /\ UNCHANGED <<canvas, nPhotos, blobs>>
         ELSE /\ nPhotos < MaxPhotos
              /\ OpsUsed < MaxOps
              /\ nPhotos' = nPhotos + 1
              /\ canvas' = nPhotos + 1
              /\ blobs' = blobs \cup {nPhotos + 1}
              /\ toast' = "none"
    /\ lastSubmit' = "none"
    /\ UNCHANGED <<sessionVars, respVars, screen, mounted, isCameraActive, isProcessing, capturedImage,
                   pickerOpen, readers>>
    /\ UNCHANGED <<camVars, netVars, trainVars, markVars, demoVars>>

\* The toBlob callback runs with a blob.
TrainBlobReady(p) ==
    /\ screen = "train"
    /\ p \in blobs
    /\ blobs' = blobs \ {p}
    /\ StopCamera
    /\ IF mounted
         THEN /\ capturedFile' = p
              /\ capturedImage' = canvas
         ELSE UNCHANGED <<capturedFile, capturedImage>>
    /\ toast' = "none"
    /\ lastSubmit' = "none"
    /\ UNCHANGED <<sessionVars, respVars, screen, mounted, isProcessing, registrationSuccess, form,
                   startVars, pickerOpen, readers, canvas, nPhotos>>
    /\ UNCHANGED <<netVars, markVars, demoVars>>

\* The toBlob callback runs with null: if (!blob) return.
TrainBlobNull(p) ==
    /\ screen = "train"
    /\ p \in blobs
    /\ blobs' = blobs \ {p}
    /\ toast' = "none"
    /\ lastSubmit' = "none"
    /\ UNCHANGED <<sessionVars, respVars, screen, mounted, isCameraActive, isProcessing, capturedImage,
                   pickerOpen, readers, canvas, nPhotos>>
    /\ UNCHANGED <<camVars, netVars, trainVars, markVars, demoVars>>

\* "Upload Photo" is clicked: fileInputRef.current?.click() opens the chooser.
TrainUploadClick ==
    /\ screen = "train"
    /\ UserCanAct
    /\ TrainStartControl
    /\ nPhotos < MaxPhotos
    /\ OpsUsed < MaxOps
    /\ pickerOpen' = TRUE
    /\ toast' = "none"
    /\ lastSubmit' = "none"
    /\ UNCHANGED <<sessionVars, respVars, screen, mounted, isCameraActive, isProcessing, capturedImage,
                   readers, blobs, canvas, nPhotos>>
    /\ UNCHANGED <<camVars, netVars, trainVars, markVars, demoVars>>

\* The chooser closes with a file: handleFileUpload.
TrainFileChosen ==
    /\ screen = "train"
    /\ pickerOpen
    /\ pickerOpen' = FALSE
    /\ nPhotos' = nPhotos + 1
    /\ capturedFile' = nPhotos + 1
    /\ readers' = readers \cup {nPhotos + 1}
    /\ StopCamera
    /\ toast' = "none"
    /\ lastSubmit' = "none"
    /\ UNCHANGED <<sessionVars, respVars, screen, mounted, isProcessing, capturedImage,
                   registrationSuccess, form, startVars, blobs, canvas>>
    /\ UNCHANGED <<netVars, markVars, demoVars>>

\* The chooser closes with no file: if (!file) return.
TrainFileNone ==
    /\ screen = "train"
    /\ pickerOpen
    /\ pickerOpen' = FALSE
    /\ toast' = "none"
    /\ lastSubmit' = "none"
    /\ UNCHANGED <<sessionVars, respVars, screen, mounted, isCameraActive, isProcessing, capturedImage,
                   readers, blobs, canvas, nPhotos>>
    /\ UNCHANGED <<camVars, netVars, trainVars, markVars, demoVars>>

\* reader.onload: setCapturedImage(ev.target.result).
TrainReaderLoad(f) ==
    /\ screen = "train"
    /\ f \in readers
    /\ readers' = readers \ {f}
    /\ capturedImage' = f
    /\ srcObject' = 0
    /\ readyState4' = FALSE
    /\ toast' = "none"
    /\ lastSubmit' = "none"
    /\ UNCHANGED <<sessionVars, respVars, screen, mounted, isCameraActive, isProcessing, startVars,
                   live, streamRef, pickerOpen, blobs, canvas, nPhotos>>
    /\ UNCHANGED <<netVars, trainVars, markVars, demoVars>>

\* A resetCapture that also gives the submission up.
TrainResetCapture_Cancels ==
    /\ screen = "train"
    /\ UserCanAct
    /\ TrainRetakeControl
    /\ capturedImage' = 0
    /\ capturedFile' = 0
    /\ isProcessing' = FALSE
    /\ toast' = "none"
    /\ lastSubmit' = "none"
    /\ UNCHANGED <<sessionVars, respVars, screen, mounted, isCameraActive,
                   registrationSuccess, form>>
    /\ UNCHANGED <<camVars, photoVars, netVars, markVars, demoVars>>

\* "Retake" is clicked: resetCapture.
TrainResetCapture ==
    /\ screen = "train"
    /\ UserCanAct
    /\ TrainRetakeControl
    /\ capturedImage' = 0
    /\ capturedFile' = 0
    /\ toast' = "none"
    /\ lastSubmit' = "none"
    /\ UNCHANGED <<sessionVars, respVars, screen, mounted, isCameraActive, isProcessing,
                   registrationSuccess, form>>
    /\ UNCHANGED <<camVars, photoVars, netVars, markVars, demoVars>>

\* The user types in the inputs of the form (onChange, 870-916) until it
\* reads g: every input is filled in, or one input of the filled form is
\* overwritten with white space.
TrainEditForm(g) ==
    /\ screen = "train"
    /\ UserCanAct
    /\ form # g
    /\ (form = FilledForm \/ g = FilledForm)
    /\ form' = g
    /\ toast' = "none"
    /\ lastSubmit' = "none"
    /\ UNCHANGED <<sessionVars, respVars, screen, mounted, isCameraActive, isProcessing, capturedImage,
                   capturedFile, registrationSuccess>>
    /\ UNCHANGED <<camVars, photoVars, netVars, markVars, demoVars>>

\* The request api.registerStudent sends.
RegisterRequest ==
    [status |-> "inflight", endpoint |-> "register", file |-> capturedFile,
     form |-> form, subject |-> 0]

\* "Register Student" is clicked.  A disabled button raises no submit event;
\* otherwise submit runs up to its await.
TrainSubmitClick ==
    /\ screen = "train"
    /\ UserCanAct
    /\ ~registrationSuccess
    /\ UnusedNet # {}
    /\ OpsUsed < MaxOps
    /\ IF SubmitDisabled
         THEN /\ lastSubmit' = "ignored"
              /\ toast' = "none"
              /\ UNCHANGED <<isProcessing, net>>
         ELSE IF capturedFile = 0
         THEN /\ lastSubmit' = "returned"
              /\ toast' = "none"
              /\ UNCHANGED <<isProcessing, net>>
         ELSE IF ~IsFormValid
         THEN /\ lastSubmit' = "returned"
              /\ toast' = "fill_all_fields"
              /\ UNCHANGED <<isProcessing, net>>
         ELSE /\ lastSubmit' = "sent"
              /\ toast' = "none"
              /\ isProcessing' = TRUE
              /\ net' = [net EXCEPT ![NextNet] = RegisterRequest]
    /\ UNCHANGED <<sessionVars, respVars, screen, mounted, isCameraActive, capturedImage, resetTimers>>
    /\ UNCHANGED <<camVars, photoVars, trainVars, markVars, demoVars>>

\* The register request resolves: the rest of the try block, then finally.
TrainRegisterOk(i) ==
    /\ screen = "train"
    /\ i \in InFlight
    /\ net[i].endpoint = "register"
    /\ net' = [net EXCEPT ![i].status = "settled"]
    /\ toast' = "registered"
    /\ lastSubmit' = "none"
    /\ IF mounted
         THEN /\ registrationSuccess' = TRUE
              /\ isProcessing' = FALSE
              /\ resetTimers' = resetTimers + 1
         ELSE UNCHANGED <<registrationSuccess, isProcessing, resetTimers>>
    /\ UNCHANGED <<sessionVars, respVars, screen, mounted, isCameraActive, capturedImage, capturedFile,
                   form>>
    /\ UNCHANGED <<camVars, photoVars, markVars, demoVars>>

\* The register request rejects (transport failure, non-2xx status, or a body
\* that is not JSON): catch, then finally.
TrainRegisterFail(i, r) ==
    /\ screen = "train"
    /\ i \in InFlight
    /\ net[i].endpoint = "register"
    /\ r \in ErrorResponses
    /\ net' = [net EXCEPT ![i] = Settled]
    /\ toast' = RequestFormData(r).message
    /\ lastSubmit' = "none"
    /\ isProcessing' = FALSE
    /\ UNCHANGED <<sessionVars, respVars, screen, mounted, isCameraActive, capturedImage, resetTimers>>
    /\ UNCHANGED <<camVars, photoVars, trainVars, markVars, demoVars>>

\* The 2500 ms timer set after a successful registration fires.
TrainResetTimer ==
    /\ screen = "train"
    /\ resetTimers > 0
    /\ resetTimers' = resetTimers - 1
    /\ form' = EmptyForm
    /\ capturedImage' = 0
    /\ capturedFile' = 0
    /\ registrationSuccess' = FALSE
    /\ toast' = "none"
    /\ lastSubmit' = "none"
    /\ UNCHANGED <<sessionVars, respVars, screen, mounted, isCameraActive, isProcessing, net>>
    /\ UNCHANGED <<camVars, photoVars, markVars, demoVars>>

\* The screen is left: React runs the effect cleanup and drops the elements.
\* A pending FileReader and a pending reset timer only set state when they
\* run, which does nothing from now on: they are not followed further.
TrainUnmount ==
    /\ screen = "train"
    /\ UserCanAct
    /\ mounted' = FALSE
    /\ CleanupOnUnmount
    /\ StateDropped
    /\ srcObject' = 0
    /\ readyState4' = FALSE
    /\ readers' = {}
    /\ resetTimers' = 0
    /\ toast' = "none"
    /\ lastSubmit' = "none"
    /\ UNCHANGED <<sessionVars, respVars, screen, startVars, subjectsFetch, pickerOpen, blobs, canvas,
                   nPhotos, net>>
    /\ UNCHANGED <<successTimers, capturePc, revealIdx>>

TrainNext ==
    \/ TrainStartCamera
    \/ TrainStartGranted
    \/ TrainStartDenied
    \/ TrainStopCamera
    \/ TrainCapturePhoto
    \/ \E p \in 1..MaxPhotos : TrainBlobReady(p)
    \/ \E p \in 1..MaxPhotos : TrainBlobNull(p)
    \/ TrainUploadClick
    \/ TrainFileChosen
    \/ TrainFileNone
    \/ \E f \in 1..MaxPhotos : TrainReaderLoad(f)
    \/ TrainResetCapture
    \/ \E g \in FormInputs : TrainEditForm(g)
    \/ TrainSubmitClick
    \/ \E i \in 1..MaxSubmits : TrainRegisterOk(i)
    \/ \E i \in 1..MaxSubmits : \E r \in ErrorResponses :
           TrainRegisterFail(i, r)
    \/ TrainResetTimer
    \/ TrainUnmount

----------------------------------------------------------------------------
\* MarkAttendance (the attendance screen, part_000).

\* The fetch of the mount effect resolves with n subjects.
MarkSubjectsLoaded(n) ==
    /\ screen = "mark"
    /\ subjectsFetch = "pending"
    /\ subjectsFetch' = "done"
    /\ IF mounted
         THEN /\ subjects' = n
              /\ selectedSubject' = IF n > 0 THEN 1 ELSE selectedSubject
         ELSE UNCHANGED <<subjects, selectedSubject>>
    /\ toast' = "none"
    /\ lastSubmit' = "none"
    /\ UNCHANGED <<sessionVars, respVars, screen, mounted, isCameraActive, isProcessing, capturedImage,
                   error>>
    /\ UNCHANGED <<camVars, photoVars, netVars, trainVars, demoVars>>

\* The fetch of the mount effect rejects.
MarkSubjectsFailed(r) ==
    /\ screen = "mark"
    /\ subjectsFetch = "pending"
    /\ r \in ErrorResponses
    /\ subjectsFetch' = "done"
    /\ toast' = RequestJson(r).message
    /\ lastSubmit' = "none"
    /\ UNCHANGED <<sessionVars, respVars, screen, mounted, isCameraActive, isProcessing, capturedImage,
                   subjects, selectedSubject, error>>
    /\ UNCHANGED <<camVars, photoVars, netVars, trainVars, demoVars>>

\* A subject button is clicked.
MarkSelectSubject(s) ==
    /\ screen = "mark"
    /\ UserCanAct
    /\ s \in 1..subjects
    /\ selectedSubject' = s
    /\ toast' = "none"
    /\ lastSubmit' = "none"
    /\ UNCHANGED <<sessionVars, respVars, screen, mounted, isCameraActive, isProcessing, capturedImage,
                   subjects, subjectsFetch, error>>
    /\ UNCHANGED <<camVars, photoVars, netVars, trainVars, demoVars>>

\* The controls the render function shows (241-259).
MarkStartControl == mounted /\ ~isCameraActive /\ subjects # 0
MarkStopControl == mounted /\ isCameraActive
MarkCaptureControl == mounted /\ isCameraActive /\ ~isProcessing

\* "Start Camera" of the attendance screen is clicked.
MarkStartCamera ==
    /\ screen = "mark"
    /\ UserCanAct
    /\ MarkStartControl
    /\ GetUserMedia
    /\ toast' = "none"
    /\ lastSubmit' = "none"
    /\ UNCHANGED <<sessionVars, respVars, screen, mounted, isCameraActive, isProcessing, capturedImage,
                   live, streamRef, srcObject, readyState4>>
    /\ UNCHANGED <<photoVars, netVars, trainVars, markVars, demoVars>>

\* getUserMedia resolves with a stream: the rest of startCamera runs.
MarkStartGranted ==
    /\ screen = "mark"
    /\ StreamGranted
    /\ IF VideoMounted
         THEN /\ srcObject' = nGranted'
              /\ streamRef' = nGranted'
              /\ readyState4' = FALSE
              /\ isCameraActive' = TRUE
              /\ capturedImage' = 0
              /\ detectedStudents' = <<>>
              /\ error' = "null"
         ELSE UNCHANGED <<srcObject, streamRef, readyState4, isCameraActive,
                          capturedImage, detectedStudents, error>>
    /\ toast' = "none"
    /\ lastSubmit' = "none"
    /\ UNCHANGED <<sessionVars, respVars, screen, mounted, isProcessing, subjects, selectedSubject,
                   subjectsFetch, showSuccess, successTimers, capturePc, revealIdx>>
    /\ UNCHANGED <<photoVars, netVars, trainVars>>

\* The catch of startCamera taken from the demo screen.
MarkStartDenied_Demo ==
    /\ screen = "mark"
    /\ StreamDenied
    /\ isCameraActive' = mounted
    /\ toast' = "none"
    /\ lastSubmit' = "none"
    /\ UNCHANGED <<sessionVars, respVars, screen, mounted, isProcessing, capturedImage,
                   streamRef, srcObject, readyState4>>
    /\ UNCHANGED <<photoVars, netVars, trainVars, markVars, demoVars>>

\* getUserMedia rejects: the catch of startCamera.
MarkStartDenied ==
    /\ screen = "mark"
    /\ StreamDenied
    /\ toast' = "camera_denied"
    /\ lastSubmit' = "none"
    /\ UNCHANGED <<sessionVars, respVars, screen, mounted, isCameraActive, isProcessing, capturedImage,
                   streamRef, srcObject, readyState4>>
    /\ UNCHANGED <<photoVars, netVars, trainVars, markVars, demoVars>>

\* The screen is left: the effect cleanup of 58-62 runs.
MarkUnmount ==
    /\ screen = "mark"
    /\ UserCanAct
    /\ mounted' = FALSE
    /\ CleanupOnUnmount
    /\ StateDropped
    /\ srcObject' = 0
    /\ readyState4' = FALSE
    /\ toast' = "none"
    /\ lastSubmit' = "none"
    /\ UNCHANGED <<sessionVars, respVars, screen, startVars, subjectsFetch, successTimers, capturePc,
                   revealIdx>>
    /\ UNCHANGED <<photoVars, netVars>>

MarkNext ==
    \/ \E n \in 0..MaxSubjects : MarkSubjectsLoaded(n)
    \/ \E r \in ErrorResponses : MarkSubjectsFailed(r)
    \/ \E s \in 1..MaxSubjects : MarkSelectSubject(s)
    \/ MarkStartCamera
    \/ MarkStartGranted
    \/ MarkStartDenied
    \/ MarkUnmount

----------------------------------------------------------------------------
\* MarkAttendance: what captureAndProcess makes of the response to its
\* request (part_000 121-150).  The camera of the screen never turns on
\* (MarkCameraNeverActive below), so these steps are no part of Next; they
\* are explored on their own, one response at a time, by ResponseSpec.

\* The request api.markAttendance sends (part_007 263-269).
MarkRequest(subject, file) ==
    [status |-> "inflight", endpoint |-> "mark", file |-> file,
     form |-> EmptyForm, subject |-> subject]

\* A status that leaves the two thresholds to the lower tier.
Status_Exclusive(confidence) ==
    IF confidence > 85 THEN "success"
    ELSE IF confidence > 70 THEN "warning"
    ELSE "error"

\* The status captureAndProcess gives a detection.
Status(confidence) ==
    IF confidence >= 85 THEN "success"
    ELSE IF confidence >= 70 THEN "warning"
    ELSE "error"

\* getConfidenceColor: the class of the percentage shown with a detection.
GetConfidenceColor(confidence) ==
    IF confidence >= 85 THEN "text-success"
    ELSE IF confidence >= 70 THEN "text-warning"
    ELSE "text-destructive"

\* getConfidenceBarColor: the class of the bar drawn under it.
GetConfidenceBarColor(confidence) ==
    IF confidence >= 85 THEN "bg-success"
    ELSE IF confidence >= 70 THEN "bg-warning"
    ELSE "bg-destructive"

\* (result.students_present || []).map(...)
MappedStudents(r) ==
    LET present == IF r.students_present = "list" THEN r.list ELSE <<>>
    IN  [k \in 1..Len(present) |->
           [student_id |-> present[k].student_id,
            confidence |-> present[k].confidence,
            status |-> Status(present[k].confidence)]]

NoStudentsMessage == "No students detected in the image"
NotAFunction == "(result.students_present || []).map is not a function"

\* The error captureAndProcess catches for response r, "null" when none is
\* thrown: the rejection of requestFormData, or the TypeError of calling map
\* on something that is no array.
Caught(r) ==
    IF ~RequestFormData(r).ok THEN RequestFormData(r).message
    ELSE IF r.students_present = "not_a_list" THEN NotAFunction
    ELSE "null"

\* The request settles with response r: captureAndProcess runs on, to its
\* end or to the first turn of the reveal loop.
MarkResponse(i, r) ==
    /\ screen = "mark"
    /\ mounted
    /\ capturePc = "request"
    /\ i \in InFlight
    /\ net[i].endpoint = "mark"
    /\ net' = [net EXCEPT ![i] = Settled]
    /\ response' = r
    /\ IF Caught(r) # "null"
         THEN /\ error' = Caught(r)
              /\ toast' = "mark_failed"
              /\ isProcessing' = FALSE
              /\ capturePc' = "idle"
              /\ UNCHANGED students
         ELSE IF MappedStudents(r) = <<>>
         THEN /\ error' = NoStudentsMessage
              /\ toast' = "no_students"
              /\ isProcessing' = FALSE
              /\ capturePc' = "idle"
              /\ UNCHANGED students
         ELSE /\ students' = MappedStudents(r)
              /\ capturePc' = "reveal"
              /\ toast' = "none"
              /\ UNCHANGED <<error, isProcessing>>
    /\ lastSubmit' = "none"
    /\ UNCHANGED <<sessionVars, captureSubject, screen, mounted, isCameraActive,
                   capturedImage, subjects,
                   selectedSubject, subjectsFetch, detectedStudents,
                   showSuccess, successTimers, revealIdx, resetTimers>>
    /\ UNCHANGED <<camVars, photoVars, trainVars>>

\* The 150 ms of one turn of the loop are over: students[i] is appended, and
\* after the last turn the rest of the try block and the finally block run.
MarkRevealStep ==
    /\ screen = "mark"
    /\ mounted
    /\ capturePc = "reveal"
    /\ detectedStudents' = Append(detectedStudents, students[revealIdx + 1])
    /\ IF revealIdx + 1 < Len(students)
         THEN /\ revealIdx' = revealIdx + 1
              /\ UNCHANGED <<capturePc, isProcessing, showSuccess,
                             successTimers>>
         ELSE /\ revealIdx' = 0
              /\ capturePc' = "idle"
              /\ isProcessing' = FALSE
              /\ showSuccess' = TRUE
              /\ successTimers' = successTimers + 1
    /\ toast' = "none"
    /\ lastSubmit' = "none"
    /\ UNCHANGED <<sessionVars, respVars, screen, mounted, isCameraActive, capturedImage>>
    /\ UNCHANGED <<camVars, photoVars, netVars, trainVars, markVars>>

\* The 2500 ms timer set at the end of the try block fires.
MarkSuccessTimer ==
    /\ screen = "mark"
    /\ mounted
    /\ successTimers > 0
    /\ successTimers' = successTimers - 1
    /\ showSuccess' = FALSE
    /\ toast' = "none"
    /\ lastSubmit' = "none"
    /\ UNCHANGED <<sessionVars, respVars, screen, mounted, isCameraActive, isProcessing,
                   capturedImage, detectedStudents, capturePc, revealIdx>>
    /\ UNCHANGED <<camVars, photoVars, netVars, trainVars, markVars>>

\* The message of the Error thrown when canvas.toBlob yields null.
CaptureFailed == "Failed to capture image"

\* A captureAndProcess that leaves the list of the capture before.
MarkCaptureAndProcess_KeepsList ==
    /\ screen = "mark"
    /\ UserCanAct
    /\ MarkCaptureControl
    /\ IF selectedSubject = 0
         THEN /\ toast' = "select_subject"
              /\ UNCHANGED <<capturedImage, isProcessing, detectedStudents,
                             error, canvas, nPhotos, blobs, respVars,
                             capturePc>>
         ELSE IF ~VideoMounted \/ ~readyState4
         THEN /\ toast' = "none"
              /\ UNCHANGED <<capturedImage, isProcessing, detectedStudents,
                             error, canvas, nPhotos, blobs, respVars,
                             capturePc>>
         ELSE /\ nPhotos < MaxPhotos
              /\ OpsUsed < MaxOps
              /\ UnusedNet # {}
              /\ nPhotos' = nPhotos + 1
              /\ canvas' = nPhotos + 1
              /\ capturedImage' = nPhotos + 1
              /\ isProcessing' = TRUE
              /\ UNCHANGED detectedStudents
              /\ error' = "null"
              /\ blobs' = blobs \cup {nPhotos + 1}
              /\ captureSubject' = selectedSubject
              /\ capturePc' = "encode"
              /\ response' = NoResponse
              /\ students' = <<>>
              /\ toast' = "none"
    /\ lastSubmit' = "none"
    /\ UNCHANGED <<sessionVars, screen, mounted,
                   isCameraActive, subjects, selectedSubject, subjectsFetch,
                   showSuccess, successTimers, revealIdx, pickerOpen, readers>>
    /\ UNCHANGED <<camVars, netVars, trainVars>>

\* "Capture & Mark" is clicked: captureAndProcess up to the call of
\* canvas.toBlob. A missing subject is refused with a toast, a video that has
\* no frame yet is refused silently; both return before any state is set.
MarkCaptureAndProcess ==
    /\ screen = "mark"
    /\ UserCanAct
    /\ MarkCaptureControl
    /\ IF selectedSubject = 0
         THEN /\ toast' = "select_subject"
              /\ UNCHANGED <<capturedImage, isProcessing, detectedStudents,
                             error, canvas, nPhotos, blobs, respVars,
                             capturePc>>
         ELSE IF ~VideoMounted \/ ~readyState4
         THEN /\ toast' = "none"
              /\ UNCHANGED <<capturedImage, isProcessing, detectedStudents,
                             error, canvas, nPhotos, blobs, respVars,
                             capturePc>>
         ELSE /\ nPhotos < MaxPhotos
              /\ OpsUsed < MaxOps
              /\ UnusedNet # {}
              /\ nPhotos' = nPhotos + 1
              /\ canvas' = nPhotos + 1
              /\ capturedImage' = nPhotos + 1
              /\ isProcessing' = TRUE
              /\ detectedStudents' = <<>>
              /\ error' = "null"
              /\ blobs' = blobs \cup {nPhotos + 1}
              /\ captureSubject' = selectedSubject
              /\ capturePc' = "encode"
              /\ response' = NoResponse
              /\ students' = <<>>
              /\ toast' = "none"
    /\ lastSubmit' = "none"
    /\ UNCHANGED <<sessionVars, screen, mounted,
                   isCameraActive, subjects, selectedSubject, subjectsFetch,
                   showSuccess, successTimers, revealIdx, pickerOpen, readers>>
    /\ UNCHANGED <<camVars, netVars, trainVars>>

\* The toBlob callback runs with a blob: the file is built and
\* api.markAttendance is called with the subject the closure holds.
MarkBlobReady(p) ==
    /\ screen = "mark"
    /\ capturePc = "encode"
    /\ p \in blobs
    /\ UnusedNet # {}
    /\ blobs' = blobs \ {p}
    /\ net' = [net EXCEPT ![NextNet] = MarkRequest(captureSubject, p)]
    /\ capturePc' = "request"
    /\ toast' = "none"
    /\ lastSubmit' = "none"
    /\ UNCHANGED <<sessionVars, respVars, screen, mounted, isCameraActive,
                   isProcessing, capturedImage, resetTimers, pickerOpen,
                   readers, canvas, nPhotos, detectedStudents, showSuccess,
                   successTimers, revealIdx>>
    /\ UNCHANGED <<camVars, trainVars, markVars>>

\* A toBlob callback whose failure path has no finally block.
MarkBlobNull_StaysBusy(p) ==
    /\ screen = "mark"
    /\ capturePc = "encode"
    /\ p \in blobs
    /\ blobs' = blobs \ {p}
    /\ capturePc' = "idle"
    /\ error' = IF mounted THEN CaptureFailed ELSE error
    /\ toast' = "mark_failed"
    /\ lastSubmit' = "none"
    /\ UNCHANGED <<sessionVars, respVars, screen, mounted, isCameraActive,
                   isProcessing, capturedImage, subjects, selectedSubject,
                   subjectsFetch, detectedStudents, showSuccess,
                   successTimers, revealIdx, pickerOpen, readers, canvas,
                   nPhotos>>
    /\ UNCHANGED <<camVars, netVars, trainVars>>

\* The toBlob callback runs with null: the throw of line 119, then the catch
\* and the finally block.
MarkBlobNull(p) ==
    /\ screen = "mark"
    /\ capturePc = "encode"
    /\ p \in blobs
    /\ blobs' = blobs \ {p}
    /\ capturePc' = "idle"
    /\ IF mounted
         THEN /\ error' = CaptureFailed
              /\ isProcessing' = FALSE
         ELSE UNCHANGED <<error, isProcessing>>
    /\ toast' = "mark_failed"
    /\ lastSubmit' = "none"
    /\ UNCHANGED <<sessionVars, respVars, screen, mounted, isCameraActive,
                   capturedImage, subjects, selectedSubject, subjectsFetch,
                   detectedStudents, showSuccess, successTimers, revealIdx,
                   pickerOpen, readers, canvas, nPhotos>>
    /\ UNCHANGED <<camVars, netVars, trainVars>>

\* "Stop Camera" of the attendance screen is clicked.
MarkStopCamera ==
    /\ screen = "mark"
    /\ UserCanAct
    /\ MarkStopControl
    /\ StopCamera
    /\ toast' = "none"
    /\ lastSubmit' = "none"
    /\ UNCHANGED <<sessionVars, respVars, screen, mounted, isProcessing,
                   capturedImage, startVars>>
    /\ UNCHANGED <<photoVars, netVars, trainVars, markVars, demoVars>>

\* The state captureAndProcess leaves when it awaits api.markAttendance
\* (part_000 111-121): a frame drawn and shown, the list and the error
\* cleared, isProcessing set, one request in flight.
ResponseInit ==
    /\ screen = "mark"
    /\ mounted = TRUE
    /\ isCameraActive = TRUE
    /\ isProcessing = TRUE
    /\ capturedImage = 1
    /\ capturedFile = 0
    /\ registrationSuccess = FALSE
    /\ form = EmptyForm
    /\ subjects \in 1..MaxSubjects
    /\ selectedSubject \in 1..subjects
    /\ subjectsFetch = "done"
    /\ detectedStudents = <<>>
    /\ showSuccess = FALSE
    /\ error = "null"
    /\ nStarts = 1
    /\ pendingStarts = 0
    /\ nGranted = 1
    /\ live = {1}
    /\ streamRef = 1
    /\ srcObject = 1
    /\ readyState4 = TRUE
    /\ pickerOpen = FALSE
    /\ readers = {}
    /\ blobs = {}
    /\ canvas = 1
    /\ nPhotos = 1
    /\ net = [i \in 1..MaxSubmits |->
                IF i = 1 THEN MarkRequest(selectedSubject, 1) ELSE NoRequest]
    /\ resetTimers = 0
    /\ successTimers = 0
    /\ capturePc = "request"
    /\ revealIdx = 0
    /\ response = NoResponse
    /\ students = <<>>
    /\ captureSubject = selectedSubject
    /\ toast = "none"
    /\ lastSubmit = "none"
    /\ LoggedIn
    /\ path = "/attendance/mark"

ResponseNext ==
    \/ \E i \in 1..MaxSubmits : \E r \in Responses : MarkResponse(i, r)
    \/ MarkRevealStep
    \/ MarkSuccessTimer

ResponseSpec == ResponseInit /\ [][ResponseNext]_vars

\* The attendance screen from the same state on, with the user's controls:
\* further captures, their encoding and their requests, stop and start of the
\* camera, a change of subject. The requests settle with one response of
\* each kind.
OutcomeResponses ==
    {r \in Responses :
        /\ r.message = "absent"
        /\ r.detail \in {"absent", "Subject not found"}
        /\ \A k \in 1..Len(r.list) : r.list[k].confidence = 85}

CaptureNext ==
    \/ \E i \in 1..MaxSubmits : \E r \in OutcomeResponses : MarkResponse(i, r)
    \/ MarkRevealStep
    \/ MarkSuccessTimer
    \/ MarkCaptureAndProcess
    \/ \E p \in 1..MaxPhotos : MarkBlobReady(p)
    \/ \E p \in 1..MaxPhotos : MarkBlobNull(p)
    \/ \E s \in 1..MaxSubjects : MarkSelectSubject(s)
    \/ MarkStopCamera
    \/ MarkStartCamera
    \/ MarkStartGranted
    \/ MarkStartDenied

CaptureSpec == ResponseInit /\ [][CaptureNext]_vars

\* The same, where every pending request settles, every toBlob callback is
\* called and every 150 ms wait of the reveal ends.
CaptureFairSpec ==
    /\ CaptureSpec
    /\ WF_vars(\E i \in 1..MaxSubmits : \E r \in OutcomeResponses :
                  MarkResponse(i, r))
    /\ WF_vars(\E p \in 1..MaxPhotos : MarkBlobReady(p) \/ MarkBlobNull(p))
    /\ WF_vars(MarkRevealStep)

----------------------------------------------------------------------------
\* AuthProvider (part_009) over the auth helpers (part_007 292-307).

pageVars ==
    <<screen, mounted, isCameraActive, isProcessing, capturedImage,
      capturedFile, registrationSuccess, form, subjects, selectedSubject,
      subjectsFetch, detectedStudents, showSuccess, error, camVars,
      photoVars, net, resetTimers, successTimers, capturePc, revealIdx,
      respVars, toast, lastSubmit>>

\* The mount effect: the stored session is restored.
AuthMountEffect ==
    /\ isLoading
    /\ user' = IF GetUser(storage) # NoUser /\ IsAuthenticated(storage)
                 THEN GetUser(storage) ELSE user
    /\ isLoading' = FALSE
    /\ path' = Redirected(path, isLoading', user')
    /\ UNCHANGED <<storage, principal, nReloads, pageVars>>

\* A login that stores the token and leaves the stored profile as it is.
AuthLogin_TokenOnly(token, u) ==
    /\ ~isLoading
    /\ storage' = [storage EXCEPT !.access_token = token]
    /\ user' = u
    /\ principal' = u
    /\ UNCHANGED <<isLoading, nReloads, path, pageVars>>

\* login(token, userData)
AuthLogin(token, u) ==
    /\ ~isLoading
    /\ storage' = SetAuth(token, u)
    /\ user' = u
    /\ principal' = u
    /\ UNCHANGED <<isLoading, nReloads, path, pageVars>>

\* A logout that removes the token only.
AuthLogout_KeepsProfile ==
    /\ ~isLoading
    /\ storage' = [storage EXCEPT !.access_token = "absent"]
    /\ user' = NoUser
    /\ principal' = NoUser
    /\ path' = "/login"
    /\ UNCHANGED <<isLoading, nReloads, pageVars>>

\* Navbar.handleLogout: logout(), then navigate('/login').
AuthLogout ==
    /\ ~isLoading
    /\ storage' = EmptyStorage
    /\ user' = NoUser
    /\ principal' = NoUser
    /\ path' = "/login"
    /\ UNCHANGED <<isLoading, nReloads, pageVars>>

\* The page is reloaded: the provider is built anew, localStorage stays.
AuthReload ==
    /\ nReloads < MaxReloads
    /\ nReloads' = nReloads + 1
    /\ user' = NoUser
    /\ isLoading' = TRUE
    /\ UNCHANGED <<storage, principal, path, pageVars>>

\* The user opens route p by its address: the application loads there.
AuthVisit(p) ==
    /\ nReloads < MaxReloads
    /\ nReloads' = nReloads + 1
    /\ user' = NoUser
    /\ isLoading' = TRUE
    /\ path' = p
    /\ UNCHANGED <<storage, principal, pageVars>>

\* A link of the sidebar is followed: it is there for the roles of navItems.
AuthFollowLink(p) ==
    /\ Shown(path, isLoading, user) \in Paths
    /\ user.role \in NavRoles(p)
    /\ path' = Redirected(p, isLoading, user)
    /\ UNCHANGED <<storage, user, isLoading, principal, nReloads, pageVars>>

\* A browser that has never held a session opens the application.
AuthInit ==
    /\ screen = "login"
    /\ subjectsFetch = "done"
    /\ PageIdle
    /\ storage = EmptyStorage
    /\ user = NoUser
    /\ isLoading = TRUE
    /\ principal = NoUser
    /\ nReloads = 0
    /\ path \in Paths

AuthNext ==
    \/ AuthMountEffect
    \/ \E token \in Tokens : \E u \in Users : AuthLogin(token, u)
    \/ AuthLogout
    \/ AuthReload
    \/ \E p \in Paths : AuthVisit(p)
    \/ \E p \in Paths : AuthFollowLink(p)

AuthSpec == AuthInit /\ [][AuthNext]_vars

----------------------------------------------------------------------------
\* MarkAttendance of ClassesManagement.tsx (the demo-mode attendance screen).

\* The fetch of the mount effect resolves with n subjects.
DemoSubjectsLoaded(n) ==
    /\ screen = "demo"
    /\ subjectsFetch = "pending"
    /\ subjectsFetch' = "done"
    /\ IF mounted
         THEN /\ subjects' = n
              /\ selectedSubject' = IF n > 0 THEN 1 ELSE selectedSubject
         ELSE UNCHANGED <<subjects, selectedSubject>>
    /\ toast' = "none"
    /\ lastSubmit' = "none"
    /\ UNCHANGED <<sessionVars, respVars, screen, mounted, isCameraActive, isProcessing, capturedImage,
                   error>>
    /\ UNCHANGED <<camVars, photoVars, netVars, trainVars, demoVars>>

\* The fetch of the mount effect rejects: the demo subjects are shown.
DemoSubjectsFailed ==
    /\ screen = "demo"
    /\ subjectsFetch = "pending"
    /\ subjectsFetch' = "done"
    /\ IF mounted
         THEN /\ subjects' = DemoSubjectCount
              /\ selectedSubject' = 1
         ELSE UNCHANGED <<subjects, selectedSubject>>
    /\ toast' = "none"
    /\ lastSubmit' = "none"
    /\ UNCHANGED <<sessionVars, respVars, screen, mounted, isCameraActive, isProcessing, capturedImage,
                   error>>
    /\ UNCHANGED <<camVars, photoVars, netVars, trainVars, demoVars>>

\* A subject button is clicked.
DemoSelectSubject(s) ==
    /\ screen = "demo"
    /\ UserCanAct
    /\ s \in 1..subjects
    /\ selectedSubject' = s
    /\ toast' = "none"
    /\ lastSubmit' = "none"
    /\ UNCHANGED <<sessionVars, respVars, screen, mounted, isCameraActive, isProcessing, capturedImage,
                   subjects, subjectsFetch, error>>
    /\ UNCHANGED <<camVars, photoVars, netVars, trainVars, demoVars>>

\* The controls the render function shows (452-478).
DemoStartControl == mounted /\ ~isCameraActive
DemoStopControl == mounted /\ isCameraActive
DemoCaptureControl == mounted /\ isCameraActive /\ ~isProcessing

\* "Start Camera" of the demo screen is clicked.
DemoStartCamera ==
    /\ screen = "demo"
    /\ UserCanAct
    /\ DemoStartControl
    /\ GetUserMedia
    /\ toast' = "none"
    /\ lastSubmit' = "none"
    /\ UNCHANGED <<sessionVars, respVars, screen, mounted, isCameraActive, isProcessing, capturedImage,
                   live, streamRef, srcObject, readyState4>>
    /\ UNCHANGED <<photoVars, netVars, trainVars, markVars, demoVars>>

\* getUserMedia resolves with a stream: the rest of the try block.
DemoStartGranted ==
    /\ screen = "demo"
    /\ StreamGranted
    /\ IF VideoMounted
         THEN /\ srcObject' = nGranted'
              /\ readyState4' = FALSE
              /\ isCameraActive' = TRUE
         ELSE UNCHANGED <<srcObject, readyState4, isCameraActive>>
    /\ toast' = "none"
    /\ lastSubmit' = "none"
    /\ UNCHANGED <<sessionVars, respVars, screen, mounted, isProcessing, capturedImage, streamRef>>
    /\ UNCHANGED <<photoVars, netVars, trainVars, markVars, demoVars>>

\* getUserMedia rejects: the catch block logs to the console and simulates a
\* camera.
DemoStartDenied ==
    /\ screen = "demo"
    /\ StreamDenied
    /\ isCameraActive' = mounted
    /\ toast' = "none"
    /\ lastSubmit' = "none"
    /\ UNCHANGED <<sessionVars, respVars, screen, mounted, isProcessing, capturedImage,
                   streamRef, srcObject, readyState4>>
    /\ UNCHANGED <<photoVars, netVars, trainVars, markVars, demoVars>>

\* "Stop Camera" is clicked: stopCamera of 298-305.  The <video> element is
\* gone at the next render, and its srcObject with it.
DemoStopCamera ==
    /\ screen = "demo"
    /\ UserCanAct
    /\ DemoStopControl
    /\ live' = IF VideoMounted /\ srcObject # 0 THEN live \ {srcObject} ELSE live
    /\ isCameraActive' = FALSE
    /\ capturedImage' = 0
    /\ srcObject' = 0
    /\ readyState4' = FALSE
    /\ toast' = "none"
    /\ lastSubmit' = "none"
    /\ UNCHANGED <<sessionVars, respVars, screen, mounted, isProcessing, startVars, streamRef>>
    /\ UNCHANGED <<photoVars, netVars, trainVars, markVars, demoVars>>

\* "Capture & Mark" is clicked: captureAndProcess up to its first await.
DemoCaptureAndProcess ==
    /\ screen = "demo"
    /\ UserCanAct
    /\ DemoCaptureControl
    /\ nPhotos < MaxPhotos
    /\ OpsUsed < MaxOps
    /\ nPhotos' = nPhotos + 1
    /\ IF VideoMounted
         THEN /\ canvas' = nPhotos + 1
              /\ capturedImage' = nPhotos + 1
         ELSE UNCHANGED <<canvas, capturedImage>>
    /\ isProcessing' = TRUE
    /\ detectedStudents' = <<>>
    /\ capturePc' = "wait"
    /\ toast' = "none"
    /\ lastSubmit' = "none"
    /\ UNCHANGED <<sessionVars, respVars, screen, mounted, isCameraActive, pickerOpen, readers, blobs,
                   showSuccess, successTimers, revealIdx>>
    /\ UNCHANGED <<camVars, netVars, trainVars, markVars>>

\* The 2000 ms of simulated processing are over: the loop starts with i = 0.
DemoDelayElapsed ==
    /\ screen = "demo"
    /\ capturePc = "wait"
    /\ capturePc' = "reveal"
    /\ revealIdx' = 0
    /\ toast' = "none"
    /\ lastSubmit' = "none"
    /\ UNCHANGED <<sessionVars, respVars, screen, mounted, isCameraActive, isProcessing, capturedImage,
                   detectedStudents, showSuccess, successTimers>>
    /\ UNCHANGED <<camVars, photoVars, netVars, trainVars, markVars>>

\* The 300 ms of one turn of the loop are over: demoStudents[i] is appended,
\* and after the last turn the rest of captureAndProcess runs.
DemoRevealStep ==
    /\ screen = "demo"
    /\ capturePc = "reveal"
    /\ detectedStudents' = Append(detectedStudents, revealIdx + 1)
    /\ IF revealIdx + 1 < DemoCount
         THEN /\ revealIdx' = revealIdx + 1
              /\ UNCHANGED <<capturePc, isProcessing, showSuccess, successTimers>>
         ELSE /\ revealIdx' = 0
              /\ capturePc' = "idle"
              /\ isProcessing' = FALSE
              /\ showSuccess' = TRUE
              /\ successTimers' = successTimers + 1
    /\ toast' = "none"
    /\ lastSubmit' = "none"
    /\ UNCHANGED <<sessionVars, respVars, screen, mounted, isCameraActive, capturedImage>>
    /\ UNCHANGED <<camVars, photoVars, netVars, trainVars, markVars>>

\* A 3000 ms timer set at the end of captureAndProcess fires.
DemoSuccessTimer ==
    /\ screen = "demo"
    /\ successTimers > 0
    /\ successTimers' = successTimers - 1
    /\ showSuccess' = FALSE
    /\ toast' = "none"
    /\ lastSubmit' = "none"
    /\ UNCHANGED <<sessionVars, respVars, screen, mounted, isCameraActive, isProcessing, capturedImage,
                   detectedStudents, capturePc, revealIdx>>
    /\ UNCHANGED <<camVars, photoVars, netVars, trainVars, markVars>>

\* The screen is left.  The component has no effect cleanup: no track is
\* stopped.  What captureAndProcess and its timer still do only sets state,
\* which does nothing from now on: they are not followed further.
DemoUnmount ==
    /\ screen = "demo"
    /\ UserCanAct
    /\ mounted' = FALSE
    /\ StateDropped
    /\ srcObject' = 0
    /\ readyState4' = FALSE
    /\ capturePc' = "idle"
    /\ revealIdx' = 0
    /\ successTimers' = 0
    /\ toast' = "none"
    /\ lastSubmit' = "none"
    /\ UNCHANGED <<sessionVars, respVars, screen, startVars, live, streamRef, subjectsFetch>>
    /\ UNCHANGED <<photoVars, netVars>>

DemoNext ==
    \/ \E n \in 0..MaxSubjects : DemoSubjectsLoaded(n)
    \/ DemoSubjectsFailed
    \/ \E s \in 1..MaxSubjects : DemoSelectSubject(s)
    \/ DemoStartCamera
    \/ DemoStartGranted
    \/ DemoStartDenied
    \/ DemoStopCamera
    \/ DemoCaptureAndProcess
    \/ DemoDelayElapsed
    \/ DemoRevealStep
    \/ DemoSuccessTimer
    \/ DemoUnmount

Next ==
    \/ VideoCanPlay
    \/ TrainNext
    \/ MarkNext
    \/ DemoNext

Spec == Init /\ [][Next]_vars

----------------------------------------------------------------------------
\* Properties.

\* A value of a form field that is blank.
Blank(v) == v \in {"", " "}

\* C1: while a submission is outstanding no step sends another request, and
\* a click on the submit control leaves the outstanding request as it is: at
\* most one submission is in flight.
C1_OneSubmissionInFlight ==
    [][InFlight # {} =>
         /\ \A i \in UnusedNet : net'[i].status = "unused"
         /\ lastSubmit' # "none" => net' = net]_vars

\* C1: the submit control is clicked a second time, with a valid form and a
\* photo, while the first submission is outstanding.
C1_SecondClickWhileInFlight ==
    /\ screen = "train"
    /\ lastSubmit = "ignored"
    /\ InFlight # {}
    /\ isProcessing
    /\ IsFormValid

\* C2: every request that reaches the register-student endpoint carries a
\* photo file and five non-blank identity fields, and every request that
\* reaches the mark-attendance endpoint carries a subject and a frame.
C2_RequestsMeetPreconditions ==
    \A i \in InFlight :
        /\ net[i].endpoint \in {"register", "mark"}
        /\ net[i].file # 0
        /\ net[i].endpoint = "register" =>
               \A f \in Fields : ~Blank(net[i].form[f])
        /\ net[i].endpoint = "mark" => net[i].subject # 0

\* C2: the submit control is clicked with a photo held and one field holding
\* white space only, and nothing has been sent.
C2_BlankFieldRejected ==
    /\ screen = "train"
    /\ lastSubmit = "ignored"
    /\ ~isProcessing
    /\ capturedFile # 0
    /\ \E f \in Fields : form[f] = " "
    /\ NumSent = 0

\* C3: a click on "Stop" leaves no track of the screen live.
C3_StopReleasesEveryTrack ==
    [][TrainStopCamera => live' = {}]_vars

\* C4: once the attendance or the enrollment screen is torn down and no
\* permission request is pending any more, no track it acquired is live.
C4_NoTrackLiveAfterTeardown ==
    (screen \in {"mark", "train"} /\ ~mounted /\ pendingStarts = 0)
        => live = {}

\* C5: when a stream is granted while the attendance or the enrollment screen
\* is in CameraOff, the screen holds the stream, shows the preview and offers
\* the capture control.
C5_GrantActivatesCamera ==
    [][(/\ screen \in {"mark", "train"}
        /\ mounted
        /\ ~isCameraActive
        /\ capturedImage = 0
        /\ nGranted' = nGranted + 1)
       => (/\ isCameraActive'
           /\ streamRef' = nGranted'
           /\ srcObject' = nGranted'
           /\ IF screen = "mark" THEN MarkCaptureControl'
                                 ELSE TrainCaptureControl')]_vars

MarkCameraNeverActive ==
    screen = "mark" =>
        /\ ~isCameraActive
        /\ ~MarkStopControl
        /\ ~MarkCaptureControl
        /\ streamRef = 0
        /\ NumSent = 0
        /\ detectedStudents = <<>>
        /\ error = "null"

----------------------------------------------------------------------------
\* The response handling of the attendance screen, under ResponseSpec.

\* A response is well formed when it is a 2xx answer whose JSON body carries
\* a detection list.
WellFormed(r) ==
    r.kind = "http" /\ Ok(r) /\ r.json /\ r.students_present = "list"

\* The submission has ended in the failure branch: the catch block has set
\* the error and raised the error toast, nothing is or will be disclosed.
Failed ==
    /\ capturePc = "idle"
    /\ ~isProcessing
    /\ error # "null"
    /\ toast = "mark_failed"
    /\ detectedStudents = <<>>
    /\ ~showSuccess

----------------------------------------------------------------------------
\* The messages of rejected requests, under Spec.

\* A request was rejected on this step with answer r, and msg is what the
\* screen shows for it.
Surfaced(r, msg) ==
    \/ /\ \E i \in 1..MaxSubmits : TrainRegisterFail(i, r)
       /\ msg = toast'
    \/ /\ MarkSubjectsFailed(r)
       /\ msg = toast'

\* The messages a rejected request can carry.
ErrorTexts == {RequestFormData(r).message : r \in ErrorResponses}

\* An answer that is not 2xx.
NotOk(r) == r.kind = "http" /\ ~Ok(r)

\* C11 as stated: a non-2xx answer whose body carries the string X as detail
\* surfaces exactly X, and one whose body does not parse surfaces the generic
\* message.
C11_DetailSurfacedExactly ==
    [][toast' \in ErrorTexts =>
       \A r \in ErrorResponses : \A msg \in {toast'} :
         Surfaced(r, msg) =>
           /\ (NotOk(r) /\ r.json /\ r.detail \in Details) => msg = r.detail
           /\ (NotOk(r) /\ ~r.json) => msg = RequestFailed(r.status)]_vars

\* C11 amended: a non-2xx answer whose body carries a string X that is not
\* empty as detail surfaces exactly X; with an empty detail the message is
\* body.message if there is one, else the generic message, which is also what
\* a body that does not parse surfaces.
C11_NonEmptyDetailSurfaced ==
    [][toast' \in ErrorTexts =>
       \A r \in ErrorResponses : \A msg \in {toast'} :
         Surfaced(r, msg) =>
           /\ (NotOk(r) /\ r.json /\ r.detail \in Details \ {""})
                 => msg = r.detail
           /\ (NotOk(r) /\ r.json /\ r.detail = "")
                 => msg = IF Present(r.message) THEN r.message
                          ELSE RequestFailed(r.status)
           /\ (NotOk(r) /\ ~r.json) => msg = RequestFailed(r.status)]_vars

\* A rejected registration has just shown the detail of its answer.
C11_DetailShown ==
    /\ screen = "train"
    /\ toast \in Details \ {""}
    /\ \E i \in 1..MaxSubmits : net[i].status = "settled"

----------------------------------------------------------------------------
\* The confidence tiers, under ResponseSpec.

\* The tier a status or a colour class stands for.
TierOf(name) ==
    IF name \in {"success", "text-success", "bg-success"} THEN "high"
    ELSE IF name \in {"warning", "text-warning", "bg-warning"} THEN "medium"
    ELSE "low"

----------------------------------------------------------------------------
\* Capturing, under Spec.

\* C13: when a capture completes (the frame has been encoded and is held as
\* the captured image), the camera is off and no track is live.
C13_CaptureStopsCamera ==
    [][\A p \in blobs :
         TrainBlobReady(p) => (~isCameraActive' /\ live' = {})]_vars

\* C14: a capture attempted before the video has buffered a frame changes
\* nothing: the captured image and file, the results, the error, the
\* processing flag and the camera are as before, no frame is drawn or
\* encoded and no request is sent.
C14_EarlyCaptureChangesNothing ==
    [][(TrainCapturePhoto /\ VideoMounted /\ ~readyState4) =>
          /\ UNCHANGED <<capturedImage, capturedFile, detectedStudents,
                         error, isProcessing, isCameraActive>>
          /\ UNCHANGED <<live, streamRef, srcObject, canvas, blobs, net>>]_vars

\* A capture has just been refused because the video was not ready.
C14_EarlyCaptureRefused ==
    /\ screen = "train"
    /\ isCameraActive
    /\ ~readyState4
    /\ toast = "camera_not_ready"

\* C15: when the encoder yields no blob, the failure is shown to the user
\* and no request is sent.
C15_EncodingFailureSurfaced ==
    [][\A p \in blobs :
         TrainBlobNull(p) => (toast' # "none" /\ net' = net)]_vars

----------------------------------------------------------------------------
\* Submitting, under Spec.

\* C16: when a submission fails, the image that was sent is still held as
\* the captured image and submission is idle, so that it can be sent again.
C16_FailureKeepsImage ==
    [][\A i \in 1..MaxSubmits : \A r \in ErrorResponses :
         (mounted /\ TrainRegisterFail(i, r)) =>
            /\ capturedFile' = net[i].file
            /\ ~isProcessing']_vars

----------------------------------------------------------------------------
\* Uploading a file, under Spec.

\* C17: choosing a file makes it the captured image at once, requests no
\* camera and leaves the camera off; and as long as the user has not asked
\* for the camera, none is requested, active or live.
C17_UploadNeverUsesCamera ==
    [][/\ TrainFileChosen =>
            /\ capturedFile' = nPhotos'
            /\ capturedFile' # capturedFile
            /\ UNCHANGED <<nStarts, pendingStarts, nGranted>>
            /\ ~isCameraActive'
            /\ live' \subseteq live
       /\ nStarts' = 0 =>
            /\ pendingStarts' = 0
            /\ ~isCameraActive'
            /\ live' = {}]_vars

\* A file was uploaded and is shown as the captured image, and the camera
\* was never asked for.
C17_UploadedWithoutCamera ==
    /\ screen = "train"
    /\ nStarts = 0
    /\ capturedFile # 0
    /\ capturedImage = capturedFile
    /\ readers = {}
    /\ live = {}

----------------------------------------------------------------------------
\* After a success, under ResponseSpec.

----------------------------------------------------------------------------
\* While a submission is in flight, under Spec.

\* C19: while a submission is in flight no step of the user drops the
\* captured image or takes a new one, and the request stays in flight until
\* its response settles it.
C19_NothingButWaitWhileSubmitting ==
    [][(mounted /\ InFlight # {}) =>
          /\ ~TrainResetCapture
          /\ nPhotos' = nPhotos
          /\ \A i \in InFlight : net'[i].status \in {"inflight", "settled"}]_vars

----------------------------------------------------------------------------
\* The session, under AuthSpec.

\* C20: after a login the token and the profile are stored under the two
\* keys and the principal reported, also once a reload has completed, is the
\* one that logged in; after a logout both keys are absent and no principal
\* is reported, reload or not.
C20_SessionPersistsUntilLogout ==
    /\ principal # NoUser =>
          /\ storage.access_token \in Tokens
          /\ storage.user = JsonStringify(principal)
          /\ ~isLoading => user = principal
    /\ principal = NoUser =>
          /\ storage = EmptyStorage
          /\ user = NoUser

\* A reload after a login has restored the principal, name included.
C20_RestoredAfterReload ==
    /\ nReloads > 0
    /\ ~isLoading
    /\ principal # NoUser
    /\ principal.name # "absent"
    /\ user = principal

\* The children of DashboardLayout are on the screen.
ContentShown == Shown(path, isLoading, user) \in Paths

\* C21: the content of a protected route is shown only while a principal is
\* authenticated; once loading is over a visit without a principal is on the
\* login route; and after a logout no protected content is shown until the
\* next login.
C21_ProtectedContentNeedsSession ==
    /\ ContentShown => (user # NoUser /\ principal # NoUser)
    /\ (~isLoading /\ user = NoUser) => path = "/login"
    /\ principal = NoUser => ~ContentShown

\* After a reload a logged-in principal sees the enrollment screen.
C21_ProtectedContentShown ==
    /\ nReloads > 0
    /\ path = "/training"
    /\ ContentShown
    /\ user = principal

\* C22: the attendance screen is shown to a Teacher only and the enrollment
\* screen to a Teacher or an Admin only.
C22_RoleSelectsWorkflow ==
    /\ Shown(path, isLoading, user) = "/attendance/mark"
          => user.role = "TEACHER"
    /\ Shown(path, isLoading, user) = "/training"
          => user.role \in {"TEACHER", "ADMIN"}

\* C23: on the attendance screen an error banner that is showing is taken
\* away only by a step on which a capture succeeds: the step that receives
\* a response with detections, or the step that ends the reveal.
SuccessStep ==
    \/ capturePc = "request" /\ capturePc' = "reveal"
    \/ capturePc = "reveal" /\ capturePc' = "idle"
C24_FailureCarriesMessage ==
    [][toast' \in ErrorTexts =>
       \A r \in ErrorResponses : \A msg \in {toast'} :
         Surfaced(r, msg) =>
           /\ msg # ""
           /\ msg = NetworkHint <=> r.kind = "network_error"]_vars

\* C25: while the request of a submission is pending and the screen stays
\* open, every step that does not settle it leaves the screen submitting and
\* sends nothing: no timeout ends the wait, no retry is made, and no control
\* of the screen takes the submission back.
C25_StalledStaysSubmitting ==
    [][(mounted /\ mounted' /\ InFlight # {} /\ InFlight' = InFlight)
          => (isProcessing /\ isProcessing' /\ net' = net)]_vars
\* A registration is still pending after the user has clicked Retake.
C25_RetakenWhilePending ==
    /\ screen = "train"
    /\ mounted
    /\ InFlight # {}
    /\ isProcessing
    /\ capturedImage = 0
    /\ capturedFile = 0

\* The attendance screen likewise, from a capture whose request is pending.
MarkStalledStaysSubmitting ==
    [][(capturePc = "request" /\ InFlight' = InFlight)
          => (isProcessing /\ isProcessing' /\ net' = net)]_vars

TrainSubmittingWhilePending ==
    (screen = "train" /\ mounted) => (isProcessing <=> InFlight # {})

\* C27: on the enrollment screen a preview image is shown only while a
\* captured file is held.
C27_PreviewOnlyWithFile ==
    (screen = "train" /\ mounted) => (capturedImage # 0 => capturedFile # 0)

\* C28: the reset that follows a successful registration clears only that
\* registration: a photo or a form that no accepted registration has sent is
\* still there when the timer has fired.
Registered == {i \in 1..MaxSubmits :
                 net[i].status = "settled" /\ net[i].endpoint = "register"}
C28_ResetSparesLaterInput ==
    [][(screen = "train" /\ mounted /\ resetTimers' < resetTimers) =>
         /\ (capturedFile # 0 /\ \A i \in Registered : net[i].file # capturedFile)
               => (capturedFile' = capturedFile /\ capturedImage' = capturedImage)
         /\ (form # EmptyForm /\ \A i \in Registered : net[i].form # form)
               => form' = form]_vars

\* C29: whenever the provider reports a principal, localStorage holds a
\* token and the principal is the profile localStorage holds.
C29_PrincipalMatchesStorage ==
    user # NoUser => (IsAuthenticated(storage) /\ user = GetUser(storage))
\* A principal is reported after a reload and a later login with another
\* token.
C29_ReportedAfterRelogin ==
    /\ user # NoUser
    /\ ~isLoading
    /\ nReloads > 0
    /\ storage.access_token = "t2"

\* C30: on the attendance screen an error message (a failure, or the
\* message for an empty result) and a list of detected students that is not
\* empty are never there together.
C30_ErrorExcludesList ==
    screen = "mark" => ~(error # "null" /\ detectedStudents # <<>>)
\* A second capture has found nobody, after a first whose list was shown.
C30_EmptyAfterSuccess ==
    /\ screen = "mark"
    /\ nPhotos > 1
    /\ error = NoStudentsMessage
    /\ detectedStudents = <<>>
    /\ successTimers > 0

====
